---------------------------- MODULE Spec2Model ----------------------------
(***************************************************************************)
(* DatabaseManager (src/system/DatabaseManager.py): the CVCounter table    *)
(* and the six public operations on it.  Every operation opens its own     *)
(* session, queries, stages its changes on the loaded object, commits and  *)
(* closes; the steps of one call are the steps of one process.             *)
(***************************************************************************)
EXTENDS Integers, Sequences, FiniteSets, TLC

(* ------------------------------ bounds -------------------------------- *)
MaxRecs == 2
MaxParts == 2
MaxTime == 2
MaxPage == 3
MaxPerPage == 2
PageRecs == 3
FieldRecs == 1
PartRecs == 1
LifeParts == 1
TicksPerSec == 2

Min(a, b) == IF a < b THEN a ELSE b
Max(a, b) == IF a > b THEN a ELSE b

(* --------------------- custom_fields: text and dict ------------------- *)
(* A Text value of the custom_fields column or argument: the empty string  *)
(* '' (empty = TRUE) or the text of a JSON object, whose members are kept   *)
(* in their written order (a text may repeat a key).                       *)
EmptyText == [empty |-> TRUE, kv |-> <<>>]
ObjText(s) == [empty |-> FALSE, kv |-> s]

(* Python truth of a str: non-empty. *)
TextTruthy(t) == ~t.empty

(* d[k] = v on an insertion-ordered dict d (a sequence of <<key, value>>   *)
(* with distinct keys): an existing key keeps its place.                   *)
HasKey(d, k) == \E i \in 1..Len(d) : d[i][1] = k
DictSet(d, k, v) ==
    IF HasKey(d, k)
    THEN [i \in 1..Len(d) |-> IF d[i][1] = k THEN <<k, v>> ELSE d[i]]
    ELSE Append(d, <<k, v>>)

(* dict.update(n): the members of n set in order. *)
RECURSIVE DictUpdate(_, _)
DictUpdate(d, n) ==
    IF n = <<>> THEN d
    ELSE DictUpdate(DictSet(d, Head(n)[1], Head(n)[2]), Tail(n))

(* json.loads of an object text: a later duplicate key wins. *)
JsonLoads(t) == DictUpdate(<<>>, t.kv)
(* json.dumps of a dict: its members in insertion order (a text is told    *)
(* from another by its members, not by its spacing).                       *)
JsonDumps(d) == ObjText(d)

(* Python truth of a dict: non-empty. *)
DictTruthy(d) == d # <<>>

(* The dict as a mapping, order forgotten. *)
Keys(d) == {d[i][1] : i \in 1..Len(d)}
Lookup(d, k) == d[CHOOSE i \in 1..Len(d) : d[i][1] = k][2]
AsMap(d) == [k \in Keys(d) |-> Lookup(d, k)]

(* new_custom_fields of save_result. *)
NewCustomFields(cf) == IF TextTruthy(cf) THEN JsonLoads(cf) ELSE <<>>

(* existing_custom_fields of save_result: the stored text parsed, '{}'     *)
(* when the column is empty.                                               *)
ExistingCustomFields(stored) ==
    IF TextTruthy(stored) THEN JsonLoads(stored) ELSE <<>>

(* The custom_fields value save_result writes on an existing record. *)
MergedCustomFields(stored, cf) ==
    IF DictTruthy(NewCustomFields(cf))
    THEN JsonDumps(DictUpdate(ExistingCustomFields(stored), NewCustomFields(cf)))
    ELSE cf

(* ------------------------------- parts -------------------------------- *)
(* strftime("%Y-%m-%d %H:%M:%S") of a clock reading: whole seconds; the    *)
(* fixed-width text orders as the number does.                             *)
Strftime(t) == t \div TicksPerSec

(* sorted(parts, key=created_at, reverse=True): stable, so entries of the  *)
(* same second keep their order.                                           *)
RECURSIVE InsertDesc(_, _)
InsertDesc(s, e) ==
    IF s = <<>> THEN <<e>>
    ELSE IF Head(s).created_at >= e.created_at
         THEN <<Head(s)>> \o InsertDesc(Tail(s), e)
         ELSE <<e>> \o s
RECURSIVE SortedDesc(_)
SortedDesc(s) ==
    IF s = <<>> THEN <<>>
    ELSE InsertDesc(SortedDesc(SubSeq(s, 1, Len(s) - 1)), s[Len(s)])

PartEntry(cur, t) ==
    [current |-> cur[1], total |-> cur[2], defects |-> cur[3],
     correct |-> cur[4], created_at |-> Strftime(t)]

(* AppendedParts without the sort of line 161. *)
AppendedPartsUnsorted(parts, cur, t) == Append(parts, PartEntry(cur, t))

(* The parts value save_part_result writes (a NULL column is <<>>). *)
AppendedParts(parts, cur, t) == SortedDesc(Append(parts, PartEntry(cur, t)))


(* ------------------------------- state -------------------------------- *)
VARIABLES
    db,       \* the cvcounter table: committed rows in insertion order
    now,      \* the clock datetime.now() reads, in ticks
    pc,       \* per caller: where its current call stands
    call,     \* per caller: the operation called and its arguments
    result,   \* per caller: the row its query loaded (the local `result`)
    staged,   \* per caller: the object its session holds changed or added
    session,  \* per caller: the state of the session the call created
    ret       \* per caller: what the call returned

vars == <<db, now, pc, call, result, staged, session, ret>>

Procs == {"p1", "p2", "p3"}

Columns ==
    {"id", "active", "location", "total_count", "source_count", "defects_count",
     "correct_count", "parts", "custom_fields", "created_at", "updated_at"}

(* No row: the None of .first(), and an empty `staged`. *)
NoRec ==
    [id |-> 0, active |-> FALSE, location |-> "", total_count |-> 0,
     source_count |-> 0, defects_count |-> 0, correct_count |-> 0,
     parts |-> <<>>, custom_fields |-> EmptyText, created_at |-> 0,
     updated_at |-> 0]

NoPage ==
    [total |-> 0, page |-> 0, per_page |-> 0, results |-> <<>>,
     has_next |-> FALSE, has_prev |-> FALSE]

(* Return values: nothing yet, a bool, None, a CVCounter, a page dict. *)
NoRet == [kind |-> "none", ok |-> FALSE, counter |-> NoRec, page |-> NoPage]
RetBool(b) == [NoRet EXCEPT !.kind = "bool", !.ok = b]
RetNone == [NoRet EXCEPT !.kind = "null"]
RetCounter(r) == [NoRet EXCEPT !.kind = "counter", !.counter = r]
RetPage(g) == [NoRet EXCEPT !.kind = "page", !.page = g]

NoSession == [state |-> "none", committed |-> FALSE, rolledback |-> FALSE, error |-> FALSE]
NoCall ==
    [op |-> "none", location |-> "", counts |-> <<0, 0, 0, 0>>,
     custom_fields |-> EmptyText, active |-> TRUE, rec_id |-> 0, page |-> 1,
     per_page |-> 1]

Mutators == {"save_result", "save_part_result", "close_current_count"}
Readers == {"get_current_count", "get_count", "get_paginated"}

(* ------------------------------ queries ------------------------------- *)
(* ActiveRows with the active filter left out. *)
RowsAtLocation(d, loc) == {i \in 1..Len(d) : d[i].location = loc}
(* ActiveRows with the active filter negated. *)
InactiveRows(d, loc) == {i \in 1..Len(d) : d[i].location = loc /\ ~d[i].active}

(* filter_by(location=location, active=True): the matching row positions. *)
ActiveRows(d, loc) == {i \in 1..Len(d) : d[i].location = loc /\ d[i].active}
(* filter_by(id=rec_id) *)
RowsById(d, rid) == {i \in 1..Len(d) : d[i].id = rid}
(* filter_by(location=key): the matching rows, in table order. *)
RECURSIVE FilterByLocation(_, _)
FilterByLocation(d, key) ==
    IF d = <<>> THEN <<>>
    ELSE (IF Head(d).location = key THEN <<Head(d)>> ELSE <<>>)
         \o FilterByLocation(Tail(d), key)

(* query.offset(off).limit(lim).all() for off >= 0, lim >= 0 *)
OffsetLimit(rows, off, lim) == SubSeq(rows, off + 1, Min(Len(rows), off + lim))

(* HasNext with <= for <. *)
HasNextInclusive(page, per_page, total) == page * per_page <= total

HasNext(page, per_page, total) == page * per_page < total
HasPrev(page) == page > 1

(* The dict get_paginated returns from its count and its rows. *)
PageResult(total, rows, page, per_page) ==
    [total |-> total, page |-> page, per_page |-> per_page,
     results |-> OffsetLimit(rows, (page - 1) * per_page, per_page),
     has_next |-> HasNext(page, per_page, total), has_prev |-> HasPrev(page)]

(* --------------------- staging (lines 91-125 etc.) -------------------- *)
(* UpdatedCounter that also stamps created_at, as the insert does. *)
UpdatedCounterRestamped(r, a, t) ==
    [r EXCEPT !.active = a.active,
              !.total_count = a.counts[1],
              !.source_count = a.counts[2],
              !.defects_count = a.counts[3],
              !.correct_count = a.counts[4],
              !.custom_fields = MergedCustomFields(r.custom_fields, a.custom_fields),
              !.created_at = t,
              !.updated_at = t]

(* save_result on a loaded row: the attributes it assigns. *)
UpdatedCounter(r, a, t) ==
    [r EXCEPT !.active = a.active,
              !.total_count = a.counts[1],
              !.source_count = a.counts[2],
              !.defects_count = a.counts[3],
              !.correct_count = a.counts[4],
              !.custom_fields = MergedCustomFields(r.custom_fields, a.custom_fields),
              !.updated_at = t]

(* NewCounter with source_count and defects_count fed from each other's   *)
(* argument.                                                               *)
NewCounterCrossed(a, t1, t2) ==
    [NoRec EXCEPT !.active = a.active,
                  !.location = a.location,
                  !.total_count = a.counts[1],
                  !.source_count = a.counts[3],
                  !.defects_count = a.counts[2],
                  !.correct_count = a.counts[4],
                  !.custom_fields = a.custom_fields,
                  !.created_at = t1,
                  !.updated_at = t2]

(* save_result with no active row: the CVCounter it adds (id, parts unset). *)
NewCounter(a, t1, t2) ==
    [NoRec EXCEPT !.active = a.active,
                  !.location = a.location,
                  !.total_count = a.counts[1],
                  !.source_count = a.counts[2],
                  !.defects_count = a.counts[3],
                  !.correct_count = a.counts[4],
                  !.custom_fields = a.custom_fields,
                  !.created_at = t1,
                  !.updated_at = t2]

(* save_part_result on a loaded row. *)
PartedCounter(r, a, t1, t2) ==
    [r EXCEPT !.parts = AppendedParts(r.parts, a.counts, t1), !.updated_at = t2]

(* close_current_count on a loaded row. *)
ClosedCounter(r, t) == [r EXCEPT !.active = FALSE, !.updated_at = t]

(* ------------------------------ flushing ------------------------------ *)
(* The columns the unit of work writes: those whose staged value differs   *)
(* from the loaded one.                                                    *)
Changed(loaded, obj) == {c \in Columns : obj[c] # loaded[c]}

(* UPDATE ... WHERE id = loaded.id of the changed columns; updated_at's     *)
(* onupdate fires when the statement does not set it.                      *)
UpdateRow(row, loaded, obj, t) ==
    IF Changed(loaded, obj) = {} THEN row
    ELSE [c \in Columns |->
            IF c \in Changed(loaded, obj) THEN obj[c]
            ELSE IF c = "updated_at" THEN t
            ELSE row[c]]

(* INSERT: the autoincrement key is one more than the rows there are (no   *)
(* row is ever deleted).                                                   *)
InsertRow(d, obj) == Append(d, [obj EXCEPT !.id = Len(d) + 1])

(* Flush whose UPDATE matches the loaded row's location, not its id. *)
FlushByLocation(d, loaded, obj, t) ==
    IF loaded = NoRec THEN InsertRow(d, obj)
    ELSE [i \in 1..Len(d) |->
            IF d[i].location = loaded.location
            THEN UpdateRow(d[i], loaded, obj, t) ELSE d[i]]

(* session.commit() of what the call staged. *)
Flush(d, loaded, obj, t) ==
    IF loaded = NoRec THEN InsertRow(d, obj)
    ELSE [i \in 1..Len(d) |->
            IF d[i].id = loaded.id THEN UpdateRow(d[i], loaded, obj, t) ELSE d[i]]

(* ------------------------------ sessions ------------------------------ *)
OpenSession == [NoSession EXCEPT !.state = "open"]
Committed(s) == [s EXCEPT !.committed = TRUE]
(* Excepted with no rollback in any operation. *)
ExceptedWithoutRollback(s, o) == [s EXCEPT !.error = TRUE]

(* The except clause: the three writers roll back, the readers only log.   *)
Excepted(s, o) ==
    [s EXCEPT !.error = TRUE, !.rolledback = (o \in Mutators)]
Closed(s) == [s EXCEPT !.state = "closed"]

(* What the except clause returns. *)
ExceptReturn(o) == IF o \in Mutators THEN RetBool(FALSE) ELSE RetNone

Init ==
    /\ db = <<>>
    /\ now = 0
    /\ pc = [p \in Procs |-> "idle"]
    /\ call = [p \in Procs |-> NoCall]
    /\ result = [p \in Procs |-> NoRec]
    /\ staged = [p \in Procs |-> NoRec]
    /\ session = [p \in Procs |-> NoSession]
    /\ ret = [p \in Procs |-> NoRet]

(* ------------------------------- steps -------------------------------- *)
(* The clock is taken never to run backwards; a later datetime.now() in    *)
(* the same call may fall in the next tick.                                *)
LaterReadings(t, T) == {t, Min(t + 1, Max(t, T))}

Tick(T) ==
    /\ now < T
    /\ now' = now + 1
    /\ UNCHANGED <<db, pc, call, result, staged, session, ret>>

(* A caller enters an operation: session = self.create_session(). *)
Call(p, a) ==
    /\ pc[p] = "idle"
    /\ pc' = [pc EXCEPT ![p] = "query"]
    /\ call' = [call EXCEPT ![p] = a]
    /\ result' = [result EXCEPT ![p] = NoRec]
    /\ staged' = [staged EXCEPT ![p] = NoRec]
    /\ session' = [session EXCEPT ![p] = OpenSession]
    /\ ret' = [ret EXCEPT ![p] = NoRet]
    /\ UNCHANGED <<db, now>>

(* save_result lines 89-125: the lookup, then the staging of the update or *)
(* of the new row.                                                         *)
QuerySave(p, T) ==
    /\ pc[p] = "query" /\ call[p].op = "save_result"
    /\ IF ActiveRows(db, call[p].location) = {}
       THEN \E t2 \in LaterReadings(now, T) :
              /\ result' = [result EXCEPT ![p] = NoRec]
              /\ staged' = [staged EXCEPT ![p] = NewCounter(call[p], now, t2)]
              /\ now' = t2
       ELSE \E i \in ActiveRows(db, call[p].location) :
              /\ result' = [result EXCEPT ![p] = db[i]]
              /\ staged' = [staged EXCEPT ![p] = UpdatedCounter(db[i], call[p], now)]
              /\ now' = now
    /\ pc' = [pc EXCEPT ![p] = "commit"]
    /\ UNCHANGED <<db, call, session, ret>>

(* save_part_result lines 150-163, or the return False of line 166. *)
QueryPart(p, T) ==
    /\ pc[p] = "query" /\ call[p].op = "save_part_result"
    /\ IF ActiveRows(db, call[p].location) = {}
       THEN /\ ret' = [ret EXCEPT ![p] = RetBool(FALSE)]
            /\ pc' = [pc EXCEPT ![p] = "finally"]
            /\ UNCHANGED <<result, staged, now>>
       ELSE \E i \in ActiveRows(db, call[p].location), t2 \in LaterReadings(now, T) :
              /\ result' = [result EXCEPT ![p] = db[i]]
              /\ staged' = [staged EXCEPT ![p] = PartedCounter(db[i], call[p], now, t2)]
              /\ now' = t2
              /\ pc' = [pc EXCEPT ![p] = "commit"]
              /\ ret' = ret
    /\ UNCHANGED <<db, call, session>>

(* close_current_count lines 185-188, or the return False of line 191. *)
QueryClose(p) ==
    /\ pc[p] = "query" /\ call[p].op = "close_current_count"
    /\ IF ActiveRows(db, call[p].location) = {}
       THEN /\ ret' = [ret EXCEPT ![p] = RetBool(FALSE)]
            /\ pc' = [pc EXCEPT ![p] = "finally"]
            /\ UNCHANGED <<result, staged>>
       ELSE \E i \in ActiveRows(db, call[p].location) :
              /\ result' = [result EXCEPT ![p] = db[i]]
              /\ staged' = [staged EXCEPT ![p] = ClosedCounter(db[i], now)]
              /\ pc' = [pc EXCEPT ![p] = "commit"]
              /\ ret' = ret
    /\ UNCHANGED <<db, now, call, session>>

(* get_current_count lines 212-213. *)
QueryCurrent(p) ==
    /\ pc[p] = "query" /\ call[p].op = "get_current_count"
    /\ IF ActiveRows(db, call[p].location) = {}
       THEN /\ ret' = [ret EXCEPT ![p] = RetNone]
            /\ result' = result
       ELSE \E i \in ActiveRows(db, call[p].location) :
              /\ result' = [result EXCEPT ![p] = db[i]]
              /\ ret' = [ret EXCEPT ![p] = RetCounter(db[i])]
    /\ pc' = [pc EXCEPT ![p] = "finally"]
    /\ UNCHANGED <<db, now, call, staged, session>>

(* get_count lines 233-234. *)
QueryCount(p) ==
    /\ pc[p] = "query" /\ call[p].op = "get_count"
    /\ IF RowsById(db, call[p].rec_id) = {}
       THEN /\ ret' = [ret EXCEPT ![p] = RetNone]
            /\ result' = result
       ELSE \E i \in RowsById(db, call[p].rec_id) :
              /\ result' = [result EXCEPT ![p] = db[i]]
              /\ ret' = [ret EXCEPT ![p] = RetCounter(db[i])]
    /\ pc' = [pc EXCEPT ![p] = "finally"]
    /\ UNCHANGED <<db, now, call, staged, session>>

(* get_paginated line 255: total = query.count(), kept in the page dict    *)
(* being built.                                                            *)
QueryTotal(p) ==
    /\ pc[p] = "query" /\ call[p].op = "get_paginated"
    /\ ret' = [ret EXCEPT ![p] =
                 [NoRet EXCEPT !.page =
                    [NoPage EXCEPT !.total = Len(FilterByLocation(db, call[p].location))]]]
    /\ pc' = [pc EXCEPT ![p] = "fetch"]
    /\ UNCHANGED <<db, now, call, result, staged, session>>

(* get_paginated lines 256-265: the second statement, and the dict. *)
FetchPage(p) ==
    /\ pc[p] = "fetch"
    /\ ret' = [ret EXCEPT ![p] =
                 RetPage(PageResult(ret[p].page.total,
                                    FilterByLocation(db, call[p].location),
                                    call[p].page, call[p].per_page))]
    /\ pc' = [pc EXCEPT ![p] = "finally"]
    /\ UNCHANGED <<db, now, call, result, staged, session>>

(* session.commit() succeeds; the writer returns True. *)
Commit(p) ==
    /\ pc[p] = "commit"
    /\ db' = Flush(db, result[p], staged[p], now)
    /\ session' = [session EXCEPT ![p] = Committed(session[p])]
    /\ ret' = [ret EXCEPT ![p] = RetBool(TRUE)]
    /\ pc' = [pc EXCEPT ![p] = "finally"]
    /\ UNCHANGED <<now, call, result, staged>>

(* A statement of the call (a query, the flush) raises SQLAlchemyError. *)
StorageError(p) ==
    /\ pc[p] \in {"query", "fetch", "commit"}
    /\ pc' = [pc EXCEPT ![p] = "except"]
    /\ UNCHANGED <<db, now, call, result, staged, session, ret>>

(* The except clause. *)
Except(p) ==
    /\ pc[p] = "except"
    /\ session' = [session EXCEPT ![p] = Excepted(session[p], call[p].op)]
    /\ staged' = [staged EXCEPT ![p] = NoRec]
    /\ ret' = [ret EXCEPT ![p] = ExceptReturn(call[p].op)]
    /\ pc' = [pc EXCEPT ![p] = "finally"]
    /\ UNCHANGED <<db, now, call, result>>

(* finally: session.close(); the call returns. *)
Finally(p) ==
    /\ pc[p] = "finally"
    /\ session' = [session EXCEPT ![p] = Closed(session[p])]
    /\ pc' = [pc EXCEPT ![p] = "idle"]
    /\ UNCHANGED <<db, now, call, result, staged, ret>>

(* ------------------------------- calls -------------------------------- *)
SaveCalls(L, C, F, A) ==
    {[NoCall EXCEPT !.op = "save_result", !.location = l, !.counts = c,
                    !.custom_fields = f, !.active = a] :
        l \in L, c \in C, f \in F, a \in A}
PartCalls(L, C) ==
    {[NoCall EXCEPT !.op = "save_part_result", !.location = l, !.counts = c] :
        l \in L, c \in C}
CloseCalls(L) == {[NoCall EXCEPT !.op = "close_current_count", !.location = l] : l \in L}
CurrentCalls(L) == {[NoCall EXCEPT !.op = "get_current_count", !.location = l] : l \in L}
CountCalls(I) == {[NoCall EXCEPT !.op = "get_count", !.rec_id = i] : i \in I}
PageCalls(L, P, N) ==
    {[NoCall EXCEPT !.op = "get_paginated", !.location = l, !.page = g, !.per_page = n] :
        l \in L, g \in P, n \in N}

(* Calls under way that may still add to what a bound caps. *)
Pending(o, loc) ==
    Cardinality({q \in Procs : pc[q] \in {"query", "commit"} /\ call[q].op = o
                               /\ call[q].location = loc})
PendingSaves ==
    Cardinality({q \in Procs : pc[q] \in {"query", "commit"} /\ call[q].op = "save_result"})

(* The calls the exploration admits when calls do not overlap: at most R   *)
(* rows, at most K parts a row.                                            *)
Admit(a, R, K) ==
    CASE a.op = "save_result" ->
            ActiveRows(db, a.location) # {} \/ Len(db) < R
      [] a.op = "save_part_result" ->
            \A i \in ActiveRows(db, a.location) :
                Len(db[i].parts) + Pending("save_part_result", a.location) < K
      [] OTHER -> TRUE

Enter(p, A, R, K) == \E a \in A : Admit(a, R, K) /\ Call(p, a)

(* The calls admitted when calls overlap: every save_result under way may  *)
(* still insert.                                                           *)
AdmitOverlapped(a, R) == a.op = "save_result" => Len(db) + PendingSaves < R

EnterOverlapped(p, A, R) == \E a \in A : AdmitOverlapped(a, R) /\ Call(p, a)

(* ---------------------------- specifications -------------------------- *)
(* The steps of the callers P, their calls drawn from A, with at most R    *)
(* rows, K parts a row and clock readings up to T.                         *)
Run(P, A, R, K, T) ==
    \/ \E p \in P : Enter(p, A, R, K)
    \/ \E p \in P : QuerySave(p, T)
    \/ \E p \in P : QueryPart(p, T)
    \/ \E p \in P : QueryClose(p)
    \/ \E p \in P : Commit(p)
    \/ \E p \in P : StorageError(p)
    \/ \E p \in P : Except(p)
    \/ \E p \in P : Finally(p)

(* The steps of the three reading operations. *)
Reads(P) ==
    \/ \E p \in P : QueryCurrent(p)
    \/ \E p \in P : QueryCount(p)
    \/ \E p \in P : QueryTotal(p)
    \/ \E p \in P : FetchPage(p)

Locations == {"A", "B"}
Counts == {<<0, 0, 0, 0>>, <<9, 7, 2, 5>>}
PartCounts == {<<3, 9, 1, 2>>}
FieldsA1 == ObjText(<< <<"a", 1>> >>)
FieldsA2 == ObjText(<< <<"a", 2>> >>)
FieldsB1 == ObjText(<< <<"b", 1>> >>)
FieldsNone == ObjText(<<>>)
FieldsDup == ObjText(<< <<"b", 2>>, <<"a", 3>>, <<"b", 1>> >>)

(* Calls that do not overlap: one caller, each call run to its return,    *)
(* all six operations on two locations, within one tick of the clock.      *)
SeqCalls ==
    SaveCalls(Locations, {<<9, 7, 2, 5>>}, {EmptyText}, BOOLEAN)
    \cup PartCalls(Locations, PartCounts)
    \cup CloseCalls(Locations)
    \cup CurrentCalls(Locations)
    \cup CountCalls(1..MaxRecs)
    \cup PageCalls(Locations, {1}, {1})

Next == Run({"p1"}, SeqCalls, MaxRecs, LifeParts, 0) \/ Reads({"p1"})

Spec == Init /\ [][Next]_vars

(* One caller on one location with the clock running: updates in place. *)
UpdateCalls ==
    SaveCalls({"A"}, Counts, {EmptyText, FieldsA1}, BOOLEAN)
    \cup PartCalls({"A"}, PartCounts)
    \cup CloseCalls({"A"})

NextUpdate == Tick(MaxTime) \/ Run({"p1"}, UpdateCalls, PartRecs, LifeParts, MaxTime)

SpecUpdate == Init /\ [][NextUpdate]_vars

(* One caller on one location with the clock running: parts. *)
PartsCalls ==
    SaveCalls({"A"}, {<<9, 7, 2, 5>>}, {EmptyText}, BOOLEAN)
    \cup PartCalls({"A"}, {<<3, 9, 1, 2>>, <<4, 9, 1, 3>>})
    \cup CloseCalls({"A"})

NextParts == Tick(MaxTime) \/ Run({"p1"}, PartsCalls, PartRecs, MaxParts, MaxTime)

SpecParts == Init /\ [][NextParts]_vars

(* One caller on one location, within one tick: the custom_fields texts.  *)
FieldsCalls ==
    SaveCalls({"A"}, {<<9, 7, 2, 5>>},
              {EmptyText, FieldsNone, FieldsA1, FieldsA2, FieldsB1, FieldsDup}, {TRUE})
    \cup CloseCalls({"A"})
    \cup PartCalls({"A"}, PartCounts)

NextFields == Run({"p1"}, FieldsCalls, FieldRecs, MaxParts, 0)

SpecFields == Init /\ [][NextFields]_vars

(* One caller filling the table and paging through it, within one tick.   *)
PagesCalls ==
    SaveCalls(Locations, {<<9, 7, 2, 5>>}, {EmptyText}, BOOLEAN)
    \cup PartCalls({"A"}, PartCounts)
    \cup CloseCalls({"A"})
    \cup CurrentCalls({"A"})
    \cup CountCalls({1})
    \cup PageCalls(Locations, 1..MaxPage, 1..MaxPerPage)

NextPages == Run({"p1"}, PagesCalls, PageRecs, 1, 0) \/ Reads({"p1"})

SpecPages == Init /\ [][NextPages]_vars

(* Three callers whose calls overlap, on one location, within one tick.    *)
RaceCalls ==
    SaveCalls({"A"}, {<<9, 7, 2, 5>>}, {EmptyText}, {TRUE}) \cup CloseCalls({"A"})

NextRace ==
    \/ \E p \in Procs : EnterOverlapped(p, RaceCalls, MaxRecs)
    \/ \E p \in Procs : QuerySave(p, 0)
    \/ \E p \in Procs : QueryClose(p)
    \/ \E p \in Procs : Commit(p)
    \/ \E p \in Procs : StorageError(p)
    \/ \E p \in Procs : Except(p)
    \/ \E p \in Procs : Finally(p)

SpecRace == Init /\ [][NextRace]_vars

(* ------------------------------- claims ------------------------------- *)
(* What the claims speak of, stated on the table itself. *)
ActiveAt(d, loc) == {i \in 1..Len(d) : d[i].active /\ d[i].location = loc}
RowIds(d) == {d[i].id : i \in 1..Len(d)}
FourCounters(r) == <<r.total_count, r.source_count, r.defects_count, r.correct_count>>
Returned(p, o) == pc[p] = "idle" /\ call[p].op = o
ReturnedTrue(p, o) == Returned(p, o) /\ ret[p].kind = "bool" /\ ret[p].ok
ReturnedFalse(p, o) == Returned(p, o) /\ ret[p].kind = "bool" /\ ~ret[p].ok
(* The step in which caller p's commit of operation o succeeds. *)
Commits(p, o) == pc[p] = "commit" /\ call[p].op = o /\ pc'[p] = "finally"
OthersUntouched(keep) == \A j \in 1..Len(db) : j \notin keep => db'[j] = db[j]

(* C1 as stated: a save_result made when its location has no active row    *)
(* adds exactly one row, with the given location, active = true and the    *)
(* four given counters, and changes no other row.                          *)
C1_InsertsActiveRow ==
    [][\A p \in Procs :
         Commits(p, "save_result") /\ ActiveAt(db, call[p].location) = {}
         => /\ Len(db') = Len(db) + 1
            /\ OthersUntouched({})
            /\ db'[Len(db')].location = call[p].location
            /\ db'[Len(db')].active = TRUE
            /\ FourCounters(db'[Len(db')]) = call[p].counts]_vars

(* C1 amended: the row added carries the active flag the call was given     *)
(* (true unless the caller passes false); the call returns true.           *)
C1_InsertsGivenRow ==
    [][\A p \in Procs :
         Commits(p, "save_result") /\ ActiveAt(db, call[p].location) = {}
         => /\ Len(db') = Len(db) + 1
            /\ OthersUntouched({})
            /\ db'[Len(db')].location = call[p].location
            /\ db'[Len(db')].active = call[p].active
            /\ FourCounters(db'[Len(db')]) = call[p].counts
            /\ ret'[p] = RetBool(TRUE)]_vars

(* A save_result has returned true after adding a second row, an inactive  *)
(* one, beside a row of another location.                                  *)
C1_Witness ==
    /\ ReturnedTrue("p1", "save_result")
    /\ result["p1"] = NoRec
    /\ ~call["p1"].active
    /\ call["p1"].counts = <<9, 7, 2, 5>>
    /\ Len(db) = 2
    /\ db[2].location = call["p1"].location
    /\ db[1].location # db[2].location
    /\ ~db[2].active

(* C2: a save_result on a location with an active row updates that row in *)
(* place: as many rows as before, its id, location, created_at and parts   *)
(* kept, active and the four counters set to the arguments, custom_fields   *)
(* written (the argument's text, or a text that holds every member the     *)
(* argument names), updated_at not earlier than it was.                    *)
C2_UpdatesInPlace ==
    [][\A p \in Procs : \A i \in ActiveAt(db, call[p].location) :
         Commits(p, "save_result")
         => /\ Len(db') = Len(db)
            /\ OthersUntouched({i})
            /\ db'[i].id = db[i].id
            /\ db'[i].location = db[i].location
            /\ db'[i].created_at = db[i].created_at
            /\ db'[i].parts = db[i].parts
            /\ db'[i].active = call[p].active
            /\ FourCounters(db'[i]) = call[p].counts
            /\ \/ db'[i].custom_fields = call[p].custom_fields
               \/ \A m \in 1..Len(call[p].custom_fields.kv) :
                     \E n \in 1..Len(db'[i].custom_fields.kv) :
                        db'[i].custom_fields.kv[n] = call[p].custom_fields.kv[m]
            /\ db'[i].updated_at >= db[i].updated_at]_vars

(* A save_result has returned true after updating, at a later clock         *)
(* reading, a row that holds a part: counters and active flag changed.     *)
C2_Witness ==
    /\ ReturnedTrue("p1", "save_result")
    /\ result["p1"] # NoRec
    /\ result["p1"].parts # <<>>
    /\ \E i \in 1..Len(db) :
          /\ db[i].id = result["p1"].id
          /\ db[i].updated_at > result["p1"].updated_at
          /\ db[i].updated_at > db[i].created_at
          /\ FourCounters(db[i]) # FourCounters(result["p1"])
          /\ ~db[i].active

(* C5: a row's parts grow by exactly one entry with each successful        *)
(* save_part_result on it and by nothing else (save_result leaves them),   *)
(* so N calls leave N entries; and every row's parts are in descending     *)
(* order of created_at.                                                    *)
PartsDescending(s) ==
    \A m, n \in 1..Len(s) : m < n => s[m].created_at >= s[n].created_at
Without(s, k) == SubSeq(s, 1, k - 1) \o SubSeq(s, k + 1, Len(s))
C3_ClosedStaysClosed ==
    /\ [](\A p \in Procs :
            ReturnedTrue(p, "close_current_count")
            => /\ ActiveAt(db, call[p].location) = {}
               /\ \E i \in 1..Len(db) : db[i].id = result[p].id /\ ~db[i].active)
    /\ [][/\ Len(db') >= Len(db)
          /\ \A i \in 1..Len(db) :
                /\ db'[i].id = db[i].id
                /\ ~db[i].active => ~db'[i].active]_vars
    /\ [][\A p \in Procs :
            Commits(p, "save_result") /\ ActiveAt(db, call[p].location) = {}
            => /\ Len(db') = Len(db) + 1
               /\ db'[Len(db')].id \notin RowIds(db)]_vars

(* After an inactive row that holds a part, a save_result on the same      *)
(* location has returned true having found no active row: a second row,    *)
(* active, with another id.                                                *)
C3_Witness ==
    /\ ReturnedTrue("p1", "save_result")
    /\ result["p1"] = NoRec
    /\ Len(db) = 2
    /\ db[1].location = db[2].location
    /\ db[1].parts # <<>>
    /\ ~db[1].active
    /\ db[2].active
    /\ db[2].id # db[1].id

(* C6: a save_part_result on a location with no active row returns false   *)
(* without committing, and none of its steps changes any row.              *)
C6_NoActiveNoWrite ==
    /\ [](\A p \in Procs :
            Returned(p, "save_part_result") /\ ActiveAt(db, call[p].location) = {}
            => ret[p] = RetBool(FALSE) /\ ~session[p].committed)
    /\ [][\A p \in Procs :
            /\ call[p].op = "save_part_result"
            /\ pc[p] # "idle"
            /\ ActiveAt(db, call[p].location) = {}
            => db' = db]_vars

(* A save_part_result has returned false, with no storage error, on a      *)
(* location whose only row is inactive and holds a part.                   *)
C6_Witness ==
    /\ ReturnedFalse("p1", "save_part_result")
    /\ ~session["p1"].error
    /\ \E i \in 1..Len(db) :
          /\ db[i].location = call["p1"].location
          /\ ~db[i].active
          /\ Len(db[i].parts) = 1
    /\ ActiveAt(db, call["p1"].location) = {}

(* C9: when calls do not overlap, every location has at most one active    *)
(* row.                                                                    *)
C9_AtMostOneActive ==
    \A loc \in Locations : Cardinality(ActiveAt(db, loc)) <= 1

(* A location with an inactive row and, after a save_result that returned  *)
(* true, an active one.                                                    *)
C9_Witness ==
    /\ ReturnedTrue("p1", "save_result")
    /\ Len(db) = 2
    /\ db[1].location = db[2].location
    /\ ~db[1].active
    /\ db[2].active

ObjectOf(t) == AsMap(IF t.empty THEN <<>> ELSE JsonLoads(t))
MergedObject(E, N) ==
    [k \in DOMAIN E \cup DOMAIN N |-> IF k \in DOMAIN N THEN N[k] ELSE E[k]]
C4_MergesCustomFields ==
    [][\A p \in Procs : \A i \in ActiveAt(db, call[p].location) :
         Commits(p, "save_result")
         => ObjectOf(db'[i].custom_fields)
              = MergedObject(ObjectOf(db[i].custom_fields),
                             ObjectOf(call[p].custom_fields))]_vars

(* The same for the calls whose custom_fields name at least one member:   *)
(* what the code does merge.                                               *)
C4_MergesNamedFields ==
    [][\A p \in Procs : \A i \in ActiveAt(db, call[p].location) :
         Commits(p, "save_result") /\ call[p].custom_fields.kv # <<>>
         => ObjectOf(db'[i].custom_fields)
              = MergedObject(ObjectOf(db[i].custom_fields),
                             ObjectOf(call[p].custom_fields))]_vars

(* C7: for page >= 1 and per_page >= 1 get_paginated returns the number of  *)
(* rows of the location as total, min(per_page, max(0, total - (page-1) *   *)
(* per_page)) results, all of that location, has_next = (page * per_page <  *)
(* total), which is true exactly when the next page would hold a result,   *)
(* and has_prev = (page > 1).                                              *)
RowsOf(d, key) == {i \in 1..Len(d) : d[i].location = key}
PageLength(total, page, per_page) ==
    Min(per_page, Max(0, total - (page - 1) * per_page))
C7_PageShape ==
    \A p \in Procs :
        Returned(p, "get_paginated") /\ ret[p].kind = "page"
        => LET g == ret[p].page
               n == Cardinality(RowsOf(db, call[p].location))
           IN  /\ g.total = n
               /\ g.page = call[p].page /\ g.per_page = call[p].per_page
               /\ Len(g.results) = PageLength(n, g.page, g.per_page)
               /\ \A k \in 1..Len(g.results) :
                     /\ g.results[k].location = call[p].location
                     /\ \E i \in RowsOf(db, call[p].location) : db[i] = g.results[k]
               /\ g.has_next = (g.page * g.per_page < n)
               /\ g.has_next = (PageLength(n, g.page + 1, g.per_page) >= 1)
               /\ g.has_prev = (g.page > 1)

(* Three rows of the location, page 2 of pages of two: one result, no next *)
(* page, a previous one.                                                   *)
C7_Witness ==
    /\ Returned("p1", "get_paginated")
    /\ ret["p1"].kind = "page"
    /\ ret["p1"].page.total = 3
    /\ call["p1"].page = 2
    /\ call["p1"].per_page = 2
    /\ Len(ret["p1"].page.results) = 1
    /\ ~ret["p1"].page.has_next
    /\ ret["p1"].page.has_prev

(* C10: with calls overlapping, a close_current_count that commits turns   *)
(* inactive the one row it loaded and returns true; every other row keeps  *)
(* its active flag, so a location that had two active rows still has one.  *)
C10_CloseDeactivatesOneRow ==
    [][\A p \in Procs :
         Commits(p, "close_current_count")
         => /\ ret'[p] = RetBool(TRUE)
            /\ Len(db') = Len(db)
            /\ \A i \in 1..Len(db) :
                  db'[i].active = (db[i].active /\ db[i].id # result[p].id)
            /\ Cardinality(ActiveAt(db, call[p].location)) >= 2
               => ActiveAt(db', call[p].location) # {}]_vars

(* Two save_result calls on one location have both found no active row,    *)
(* both inserted and both returned true; a close_current_count has then    *)
(* returned true having closed the later row, and the earlier row is       *)
(* still active.                                                           *)
C10_Witness ==
    \E p, q, r \in Procs :
        /\ p # q
        /\ ReturnedTrue(p, "save_result") /\ result[p] = NoRec
        /\ ReturnedTrue(q, "save_result") /\ result[q] = NoRec
        /\ call[p].location = call[q].location
        /\ ReturnedTrue(r, "close_current_count")
        /\ call[r].location = call[p].location
        /\ Len(db) = 2
        /\ db[1].location = call[p].location /\ db[2].location = call[p].location
        /\ result[r].id = 2
        /\ db[1].active /\ ~db[2].active

=============================================================================
